---- MODULE Spec2Model ----
(***************************************************************************)
(* Model of helix-term/src/config.rs: Config::load resolves a global and   *)
(* a local (workspace) configuration document into one Config, or into a   *)
(* ConfigLoadError.                                                        *)
(*                                                                         *)
(* Encodings.  Option<T>: NONE is <<>>, Some(x) is <<x>>.  Result<T, E>:   *)
(* [ok |-> TRUE, v |-> x] or [ok |-> FALSE, err |-> e].  HashMap<K, V>: a   *)
(* function whose domain is the set of keys.  toml::Value: a table is      *)
(* [tbl |-> f], an integer is [int |-> n], a boolean is [bool |-> b].      *)
(***************************************************************************)
EXTENDS Naturals, Sequences, FiniteSets, TLC

VARIABLES global, local, pc, result, prev

vars == <<global, local, pc, result, prev>>

(***************************************************************************)
(* Bounds of the model.                                                    *)
(***************************************************************************)
\* Settings written in the two documents together: a document's top-level
\* fields, each of its [[languages]] blocks, its defect.
MaxSettings == 3

(***************************************************************************)
(* Option and Result.                                                      *)
(***************************************************************************)
NONE == <<>>

Some(x) == <<x>>

Ok(x) == [ok |-> TRUE, v |-> x]

Err(e) == [ok |-> FALSE, err |-> e]

\* Option::or
or(a, b) == IF a # NONE THEN a ELSE b

\* ConfigLoadError::BadConfig(TomlError)
BadConfig(cause) == [kind |-> "BadConfig", cause |-> cause]

\* ConfigLoadError::Error(IOError)
Error(cause) == [kind |-> "Error", cause |-> cause]

IsBadConfig(r) == ~r.ok /\ r.err.kind = "BadConfig"

(***************************************************************************)
(* toml::Value                                                             *)
(***************************************************************************)
Tbl(f) == [tbl |-> f]

Int(n) == [int |-> n]

Bool(b) == [bool |-> b]

IsTable(v) == "tbl" \in DOMAIN v

\* helix_loader::merge_toml_values(left, right, merge_depth): two tables are
\* merged key by key while merge_depth > 0, a key of both recursively with
\* merge_depth - 1; otherwise the right value replaces the left one.
RECURSIVE merge_toml_values(_, _, _)
merge_toml_values(left, right, merge_depth) ==
    IF IsTable(left) /\ IsTable(right) /\ merge_depth > 0
    THEN Tbl([k \in DOMAIN left.tbl \cup DOMAIN right.tbl |->
               IF k \in DOMAIN left.tbl /\ k \in DOMAIN right.tbl
               THEN merge_toml_values(left.tbl[k], right.tbl[k], merge_depth - 1)
               ELSE IF k \in DOMAIN right.tbl THEN right.tbl[k] ELSE left.tbl[k]])
    ELSE right

\* The depth handed to merge_toml_values by merge_editor_toml.
MERGE_DEPTH == 3

(***************************************************************************)
(* helix_view::editor::Config: the typed editor settings.  The default     *)
(* value is also the schema: a table accepts only its own keys, a scalar   *)
(* only a scalar of its own type.                                          *)
(***************************************************************************)
EditorDefault ==
    Tbl("scrolloff" :> Int(5)
     @@ "lsp" :> Tbl("display-messages" :> Bool(FALSE)
                  @@ "display-inlay-hints" :> Bool(FALSE))
     @@ "statusline" :> Tbl("mode" :> Tbl("names" :>
                  Tbl("normal" :> Int(0) @@ "insert" :> Int(0)))))

\* What a failed conversion reports: the places where val leaves the schema.
RECURSIVE SchemaErrors(_, _, _)
SchemaErrors(val, schema, path) ==
    IF IsTable(schema)
    THEN IF ~IsTable(val)
         THEN {<<path, "invalid type: expected a table">>}
         ELSE UNION {IF k \in DOMAIN schema.tbl
                     THEN SchemaErrors(val.tbl[k], schema.tbl[k], k)
                     ELSE {<<k, "unknown field">>} : k \in DOMAIN val.tbl}
    ELSE IF DOMAIN val = DOMAIN schema THEN {}
         ELSE {<<path, "invalid type: expected a scalar">>}

\* serde(default): the fields val leaves out keep their defaults.
RECURSIVE FillDefaults(_, _)
FillDefaults(val, schema) ==
    IF IsTable(schema)
    THEN Tbl([k \in DOMAIN schema.tbl |->
               IF k \in DOMAIN val.tbl
               THEN FillDefaults(val.tbl[k], schema.tbl[k])
               ELSE schema.tbl[k]])
    ELSE val

\* The outcome of the conversion of val, given where it leaves the schema.
converted(val, errors) ==
    IF errors = {} THEN Ok(FillDefaults(val, EditorDefault)) ELSE Err(errors)

\* toml::Value::try_into::<helix_view::editor::Config>()
try_into(val) == converted(val, SchemaErrors(val, EditorDefault, "editor"))

(***************************************************************************)
(* Keymaps: HashMap<Mode, KeyTrie>, a KeyTrie maps keys to commands.       *)
(***************************************************************************)
Modes == {"normal", "select", "insert"}

\* keymap::default()
keymap_default ==
    "normal" :> ("j" :> "move_line_down" @@ "w" :> "move_next_word_start")
 @@ "select" :> ("j" :> "extend_line_down")
 @@ "insert" :> ("C-w" :> "delete_word_backward")

\* KeyTrie::merge_nodes: the other trie's bindings win, the rest is kept.
merge_nodes(node, other) ==
    [k \in DOMAIN node \cup DOMAIN other |->
        IF k \in DOMAIN other THEN other[k] ELSE node[k]]

\* keymap::merge_keys(dst, delta)
merge_keys(dst, delta) ==
    [mode \in DOMAIN dst |->
        IF mode \in DOMAIN delta THEN merge_nodes(dst[mode], delta[mode])
        ELSE dst[mode]]

(***************************************************************************)
(* The documents.  A text is the content of a configuration file: its      *)
(* fields as written, and the defect, if any, that makes toml::from_str    *)
(* reject it.                                                              *)
(***************************************************************************)
Themes == {"dracula", "nord"}

LangNames == {"rust", "toml"}

\* [keys.*] sections a document may hold: the one of the test
\* parsing_keymaps_config_file, and one that rebinds keys of it and of the
\* default keymap.
KeysSample ==
    "insert" :> ("y" :> "move_line_down" @@ "S-C-a" :> "delete_selection")
 @@ "normal" :> ("A-F12" :> "move_next_word_end")

KeysRebind ==
    "insert" :> ("y" :> "delete_selection")
 @@ "normal" :> ("j" :> "move_line_up")

KeyOverrides == {KeysSample, KeysRebind}

\* [editor] sections a document may hold.  LspScalar and UnknownField fail
\* the conversion to the typed settings, each with a cause of its own.
LspMessages ==
    Tbl("scrolloff" :> Int(3)
     @@ "lsp" :> Tbl("display-messages" :> Bool(TRUE))
     @@ "statusline" :> Tbl("mode" :> Tbl("names" :> Tbl("normal" :> Int(1)))))

LspScalar == Tbl("lsp" :> Int(7))

LspHints ==
    Tbl("scrolloff" :> Int(8)
     @@ "lsp" :> Tbl("display-inlay-hints" :> Bool(TRUE))
     @@ "statusline" :> Tbl("mode" :> Tbl("names" :> Tbl("insert" :> Int(2)))))

UnknownField == Tbl("rulers" :> Int(80))

EditorValues == {LspMessages, LspScalar, LspHints, UnknownField}

Defects == {"syntax error", "unknown field"}

IoCauses == {"NotFound", "PermissionDenied"}

\* The fields of a top level, or of a [[languages]] block, that sets nothing.
NoFields == [theme |-> NONE, keys |-> NONE, editor |-> NONE]

\* One pair of documents sets fields of one kind: themes, keys or editor
\* settings alone (load resolves each independently of the others), or all
\* three together.
Kinds == {"theme", "keys", "editor", "all"}

FieldsOf(kind) ==
    IF kind = "theme"
    THEN {[theme |-> Some(t), keys |-> NONE, editor |-> NONE] : t \in Themes}
    ELSE IF kind = "keys"
    THEN {[theme |-> NONE, keys |-> Some(k), editor |-> NONE] : k \in KeyOverrides}
    ELSE IF kind = "editor"
    THEN {[theme |-> NONE, keys |-> NONE, editor |-> Some(e)] : e \in EditorValues}
    ELSE {[theme |-> Some("dracula"), keys |-> Some(KeysSample),
           editor |-> Some(LspMessages)],
          [theme |-> Some("nord"), keys |-> Some(KeysRebind),
           editor |-> Some(LspHints)]}

\* The [[languages]] blocks of one kind: a name, and fields or none.
LanguageBlocks(kind) ==
    {[name |-> n, theme |-> f.theme, keys |-> f.keys, editor |-> f.editor] :
     n \in LangNames, f \in FieldsOf(kind) \cup {NoFields}}

\* The lists of w [[languages]] blocks, in every order; at most one block
\* repeats the name of another.
RECURSIVE LanguageLists(_, _)
LanguageLists(kind, w) ==
    IF w = 0 THEN {<<>>}
    ELSE {l \in {Append(x, b) : x \in LanguageLists(kind, w - 1),
                                b \in LanguageBlocks(kind)} :
          Cardinality({l[i].name : i \in 1..w}) >= w - 1}

\* The texts of w settings: the top-level fields count as one setting, and so
\* does each [[languages]] block, and so does a defect; of a text with a
\* defect nothing else is ever read.
Texts(kind, w) ==
    {[defect |-> NONE, theme |-> NONE, keys |-> NONE, editor |-> NONE,
      languages |-> l] : l \in LanguageLists(kind, w)}
    \cup (IF w = 0 THEN {}
          ELSE {[defect |-> NONE, theme |-> f.theme, keys |-> f.keys,
                 editor |-> f.editor, languages |-> l] :
                f \in FieldsOf(kind), l \in LanguageLists(kind, w - 1)})
    \cup (IF w = 1
          THEN {[defect |-> Some(d), theme |-> NONE, keys |-> NONE,
                 editor |-> NONE, languages |-> <<>>] : d \in Defects}
          ELSE {})

\* What load is handed for one file: its text, or the error of reading it.
Inputs(kind, w) ==
    {Ok(t) : t \in Texts(kind, w)}
    \cup (IF w = 0 THEN {Err(Error({<<"io", c>>})) : c \in IoCauses} ELSE {})

\* The pairs of inputs of at most MaxSettings settings together.
InputPairs ==
    UNION {Inputs(kind, w) \X UNION {Inputs(kind, v) : v \in 0..(MaxSettings - w)} :
           kind \in Kinds, w \in 0..MaxSettings}

\* toml::from_str::<ConfigRaw>(&file) with serde(deny_unknown_fields).
from_str(file) ==
    IF file.defect # NONE
    THEN Err({<<"document", file.defect[1]>>})
    ELSE Ok([theme |-> file.theme, keys |-> file.keys, editor |-> file.editor,
             languages |-> IF file.languages = <<>> THEN NONE
                           ELSE Some(file.languages)])

\* Result::map_err(ConfigLoadError::BadConfig)
map_err_BadConfig(r) == IF r.ok THEN r ELSE Err(BadConfig(r.err))

\* |file| toml::from_str(&file).map_err(ConfigLoadError::BadConfig)
parse_file(file) == map_err_BadConfig(from_str(file))

\* global.and_then(|file| ...): an input that is an error stays that error.
parse_input(input) == IF input.ok THEN parse_file(input.v) ELSE input

(***************************************************************************)
(* config.rs                                                               *)
(***************************************************************************)
\* impl Default for Config
Config_default ==
    [theme |-> NONE, theme_lang |-> <<>>, keys |-> keymap_default,
     keys_lang |-> <<>>, editor |-> EditorDefault, editor_lang |-> <<>>]

\* A slip: the local keys are merged first, so the global ones win.
merge_config_keys_local_first(dst, global_keys, local_keys) ==
    LET dst1 == IF local_keys # NONE THEN merge_keys(dst, local_keys[1]) ELSE dst
    IN  IF global_keys # NONE THEN merge_keys(dst1, global_keys[1]) ELSE dst1

\* Config::merge_config_keys
merge_config_keys(dst, global_keys, local_keys) ==
    LET dst1 == IF global_keys # NONE THEN merge_keys(dst, global_keys[1]) ELSE dst
    IN  IF local_keys # NONE THEN merge_keys(dst1, local_keys[1]) ELSE dst1

\* Config::merge_editor_toml
merge_editor_toml(global_editor, local_editor) ==
    IF global_editor = NONE /\ local_editor = NONE THEN NONE
    ELSE IF global_editor = NONE THEN local_editor
    ELSE IF local_editor = NONE THEN global_editor
    ELSE Some(merge_toml_values(global_editor[1], local_editor[1], MERGE_DEPTH))

\* Config::map_editor_config
map_editor_config(editor_value) ==
    IF editor_value = NONE THEN Ok(EditorDefault)
    ELSE map_err_BadConfig(try_into(editor_value[1]))

\* Config::get_lang_config_map: collect() keeps, of the blocks of one name,
\* the last.
RECURSIVE collect(_, _)
collect(languages, n) ==
    IF n = 0 THEN <<>>
    ELSE (languages[n].name :> languages[n]) @@ collect(languages, n - 1)

get_lang_config_map(languages) ==
    IF languages = NONE THEN <<>> ELSE collect(languages[1], Len(languages[1]))

\* A slip: the receiver and the argument of or exchanged, the global theme wins.
theme_of_global_first(global_theme, local_theme) == or(global_theme, local_theme)

\* Option::or as load and get_lang_maps use it: the local theme, or else the
\* global one.
theme_of(global_theme, local_theme) == or(local_theme, global_theme)

\* A slip: the language's keys are merged onto the default keymap.
lang_keys_one_onto_default(lang_conf, merged_keys) ==
    IF lang_conf.keys # NONE
    THEN Some(merge_config_keys(keymap_default, lang_conf.keys, NONE))
    ELSE NONE

\* get_lang_maps, one override for the language: its keys onto merged_keys.
lang_keys_one(lang_conf, merged_keys) ==
    IF lang_conf.keys # NONE
    THEN Some(merge_config_keys(merged_keys, lang_conf.keys, NONE))
    ELSE NONE

\* Some(r?) of a Result r: Ok of Some of its value, or its error.
some_of(r) == IF r.ok THEN Ok(Some(r.v)) ELSE r

\* get_lang_maps, one override for the language: Ok of the Option to insert,
\* or the error of the conversion.
lang_editor_one(lang_conf, editor_value) ==
    IF lang_conf.editor # NONE
    THEN some_of(map_editor_config(merge_editor_toml(editor_value, lang_conf.editor)))
    ELSE Ok(NONE)

\* A slip: the is_some test left out, a keymap is made for every language
\* that both documents name.
lang_keys_both_unchecked(lang_global, lang_local, merged_keys) ==
    Some(merge_config_keys(merged_keys, lang_global.keys, lang_local.keys))

\* get_lang_maps, an override in both documents: the global keys, then the
\* local ones, onto merged_keys.
lang_keys_both(lang_global, lang_local, merged_keys) ==
    IF lang_global.keys # NONE \/ lang_local.keys # NONE
    THEN Some(merge_config_keys(merged_keys, lang_global.keys, lang_local.keys))
    ELSE NONE

\* get_lang_maps, an override in both documents: the two overrides are merged
\* with each other, and the outcome onto editor_value.
lang_editor_both(lang_global, lang_local, editor_value) ==
    IF lang_global.editor # NONE \/ lang_local.editor # NONE
    THEN some_of(map_editor_config(merge_editor_toml(
                     editor_value,
                     merge_editor_toml(lang_global.editor, lang_local.editor))))
    ELSE Ok(NONE)

\* The tuple (theme, keys, editor) of one language, or the error the ? operator
\* returns from the conversion of its editor settings.
entry_of(theme, keys, editor) ==
    IF ~editor.ok THEN editor
    ELSE Ok([theme |-> theme, keys |-> keys, editor |-> editor.v])

\* get_lang_maps, the arm for a language both documents override.
entry_both(lang_global, lang_local, merged_keys, editor_value) ==
    entry_of(theme_of(lang_global.theme, lang_local.theme),
             lang_keys_both(lang_global, lang_local, merged_keys),
             lang_editor_both(lang_global, lang_local, editor_value))

\* get_lang_maps, the arm for a language one document overrides.
entry_one(lang_conf, merged_keys, editor_value) ==
    entry_of(lang_conf.theme,
             lang_keys_one(lang_conf, merged_keys),
             lang_editor_one(lang_conf, editor_value))

\* The match in the loop of get_lang_maps for one language.
lang_entry(lang, lang_global, lang_local, merged_keys, editor_value) ==
    IF lang \in DOMAIN lang_global /\ lang \in DOMAIN lang_local
    THEN entry_both(lang_global[lang], lang_local[lang], merged_keys, editor_value)
    ELSE IF lang \in DOMAIN lang_local
    THEN entry_one(lang_local[lang], merged_keys, editor_value)
    ELSE IF lang \in DOMAIN lang_global
    THEN entry_one(lang_global[lang], merged_keys, editor_value)
    ELSE Ok([theme |-> NONE, keys |-> NONE, editor |-> NONE])

\* HashMap::insert of an Option's value, if there is one.
insert_some(map, key, opt) == IF opt # NONE THEN (key :> opt[1]) @@ map ELSE map

\* The three inserts that end the body of the loop.
inserted(maps, lang, entry) ==
    [theme_lang |-> insert_some(maps.theme_lang, lang, entry.theme),
     keys_lang |-> insert_some(maps.keys_lang, lang, entry.keys),
     editor_lang |-> insert_some(maps.editor_lang, lang, entry.editor)]

\* The loop of get_lang_maps from the i-th language of the iteration on, and
\* what follows the match for the i-th language, whose outcome is e.
RECURSIVE lang_loop(_, _, _, _, _, _, _), after_entry(_, _, _, _, _, _, _, _)
lang_loop(names, i, maps, lang_global, lang_local, merged_keys, editor_value) ==
    IF i > Len(names) THEN Ok(maps)
    ELSE after_entry(lang_entry(names[i], lang_global, lang_local, merged_keys,
                                editor_value),
                     names, i, maps, lang_global, lang_local, merged_keys,
                     editor_value)

after_entry(e, names, i, maps, lang_global, lang_local, merged_keys, editor_value) ==
    IF ~e.ok THEN e
    ELSE lang_loop(names, i + 1, inserted(maps, names[i], e.v),
                   lang_global, lang_local, merged_keys, editor_value)

\* The orders in which a HashSet<String> may hand out its elements: it hashes
\* with a key drawn per process.
Orders(S) ==
    {o \in [1..Cardinality(S) -> S] : \A i, j \in 1..Cardinality(S) : o[i] = o[j] => i = j}

\* Config::get_lang_maps; order is the iteration order of the HashSet.
get_lang_maps(lang_global, lang_local, merged_keys, editor_value, order) ==
    LET language_names == DOMAIN lang_global \cup DOMAIN lang_local
        in_set(n) == n \in language_names
    IN  lang_loop(SelectSeq(order, in_set), 1,
                  [theme_lang |-> <<>>, keys_lang |-> <<>>, editor_lang |-> <<>>],
                  lang_global, lang_local, merged_keys, editor_value)

\* The Config of a load, or the error the ? operator returns: that of
\* get_lang_maps first, then that of map_editor_config.
config_of(theme, keys, maps, editor) ==
    IF ~maps.ok THEN maps
    ELSE IF ~editor.ok THEN editor
    ELSE Ok([theme |-> theme, keys |-> keys, editor |-> editor.v,
             theme_lang |-> maps.v.theme_lang, keys_lang |-> maps.v.keys_lang,
             editor_lang |-> maps.v.editor_lang])

\* load, what its first and third arm do once keys and editor_value are there.
resolve(theme, keys, editor_value, lang_global, lang_local, order) ==
    config_of(theme, keys,
              get_lang_maps(lang_global, lang_local, keys, editor_value, order),
              map_editor_config(editor_value))

\* load, first arm: both documents parsed.
load_both(g, l, order) ==
    resolve(theme_of(g.theme, l.theme),
            merge_config_keys(keymap_default, g.keys, l.keys),
            merge_editor_toml(g.editor, l.editor),
            get_lang_config_map(g.languages), get_lang_config_map(l.languages),
            order)

\* A slip: the pattern looks for a BadConfig at the global document alone.
any_bad_config_global_only(global_config, local_config) ==
    IsBadConfig(global_config)

\* load, second arm, its pattern: one of the two is a BadConfig.
any_bad_config(global_config, local_config) ==
    IsBadConfig(local_config) \/ IsBadConfig(global_config)

\* load, second arm, its value: the alternatives of the pattern are tried in
\* the order written, the local document's first.
bad_config_of(global_config, local_config) ==
    IF IsBadConfig(local_config) THEN Err(local_config.err)
    ELSE Err(global_config.err)

\* A slip: the third arm leaves the document's keys out.
load_single_default_keys(config, order) ==
    resolve(config.theme, keymap_default, config.editor,
            get_lang_config_map(config.languages), <<>>, order)

\* load, third arm: one document parsed, reading the other failed.
load_single(config, order) ==
    resolve(config.theme,
            merge_config_keys(keymap_default, config.keys, NONE),
            config.editor,
            get_lang_config_map(config.languages), <<>>, order)

\* A slip: two io errors answered with the defaults.
io_errors_as_default(global_config, local_config) == Ok(Config_default)

\* load, fourth arm: two io errors.
io_errors(global_config, local_config) == Err(global_config.err)

\* load, the match on the two parsed documents.
load_match(global_config, local_config, order) ==
    IF global_config.ok /\ local_config.ok
    THEN load_both(global_config.v, local_config.v, order)
    ELSE IF any_bad_config(global_config, local_config)
    THEN bad_config_of(global_config, local_config)
    ELSE IF global_config.ok THEN load_single(global_config.v, order)
    ELSE IF local_config.ok THEN load_single(local_config.v, order)
    ELSE io_errors(global_config, local_config)

\* Config::load
load(global_, local_, order) ==
    load_match(parse_input(global_), parse_input(local_), order)

(***************************************************************************)
(* The state machine: the process is handed the two inputs and calls       *)
(* Config::load on them, and then once more on the same inputs; result is  *)
(* what the last call returned, prev what the first call returned once     *)
(* the second has run.                                                     *)
(***************************************************************************)
NotLoaded == Err([kind |-> "NotLoaded", cause |-> {}])

Init ==
    /\ \E p \in InputPairs : global = p[1] /\ local = p[2]
    /\ pc = "start"
    /\ result = NotLoaded
    /\ prev = NotLoaded

\* The first call of Config::load.
Load ==
    /\ pc = "start"
    /\ \E order \in Orders(LangNames) : result' = load(global, local, order)
    /\ pc' = "loaded"
    /\ UNCHANGED <<global, local, prev>>

\* A second call on the same inputs, its HashSet iterating in an order of its own.
Reload ==
    /\ pc = "loaded"
    /\ \E order \in Orders(LangNames) : result' = load(global, local, order)
    /\ prev' = result
    /\ pc' = "reloaded"
    /\ UNCHANGED <<global, local>>

Next == Load \/ Reload

Spec == Init /\ [][Next]_vars

(***************************************************************************)
(* The properties.                                                         *)
(***************************************************************************)
Loaded == pc # "start"

\* The three outcomes of obtaining and parsing one document.
Unavailable(input) == ~input.ok

Malformed(input) == input.ok /\ input.v.defect # NONE

WellFormed(input) == input.ok /\ input.v.defect = NONE

\* The structural failure of a malformed document.
StructuralError(input) == BadConfig({<<"document", input.v.defect[1]>>})

\* C1: whenever at least one document fails structural parsing, load returns a
\* BadConfig, one of a failed document, and no Config, whatever the other
\* document is; with global malformed and local well-formed or unavailable it
\* is global's structural error, with local malformed and global unavailable
\* it is local's.
C1_MalformedAlwaysWins ==
    Loaded =>
      /\ (Malformed(global) \/ Malformed(local)) =>
            /\ ~result.ok
            /\ result.err.kind = "BadConfig"
            /\ \E input \in {global, local} :
                  Malformed(input) /\ result.err = StructuralError(input)
      /\ (Malformed(global) /\ ~Malformed(local)) =>
            result = Err(StructuralError(global))
      /\ (Malformed(local) /\ Unavailable(global)) =>
            result = Err(StructuralError(local))

\* The global document malformed beside a well-formed local one that sets a
\* theme: load has returned global's structural error.
C1_Witness_MalformedBesideContent ==
    /\ Loaded
    /\ Malformed(global)
    /\ WellFormed(local)
    /\ local.v.theme # NONE
    /\ result = Err(StructuralError(global))

\* C2 (as claimed): when both documents fail structural parsing, load returns
\* the structural failure of the global document.
C2_GlobalWinsTie ==
    (Loaded /\ Malformed(global) /\ Malformed(local)) =>
        result = Err(StructuralError(global))

\* C3 (as claimed): two availability failures resolve to a Config of the
\* default keymap, the default editor settings and empty per-language maps.
C3_DefaultCompleteness ==
    (Loaded /\ Unavailable(global) /\ Unavailable(local)) =>
        /\ result.ok
        /\ result.v.keys = keymap_default
        /\ result.v.editor = EditorDefault
        /\ result.v.theme_lang = <<>>
        /\ result.v.keys_lang = <<>>
        /\ result.v.editor_lang = <<>>

\* C3 (amended): two availability failures do not resolve: load returns the
\* availability failure of the global document, and no Config.
C3_GlobalIoErrorReturned ==
    (Loaded /\ Unavailable(global) /\ Unavailable(local)) =>
        /\ ~result.ok
        /\ result.err.kind = "Error"
        /\ result = Err(global.err)

\* Both documents unavailable, for different reasons, and load has returned.
C3_Witness_TwoIoErrors ==
    /\ Loaded
    /\ Unavailable(global)
    /\ Unavailable(local)
    /\ global.err # local.err
    /\ result = Err(global.err)

\* The keys field a document contributes: nothing when it is unavailable.
KeysOf(input) == IF WellFormed(input) THEN input.v.keys ELSE NONE

\* layer(dst, overrides) of the specification, for an Option of overrides.
Layer(dst, overrides) ==
    IF overrides = NONE THEN dst ELSE merge_keys(dst, overrides[1])

\* The command a keymap binds to a key in a mode, as an Option.
Binding(keys, mode, key) ==
    IF mode \in DOMAIN keys /\ key \in DOMAIN keys[mode]
    THEN Some(keys[mode][key]) ELSE NONE

OverrideBinding(overrides, mode, key) ==
    IF overrides = NONE THEN NONE ELSE Binding(overrides[1], mode, key)

\* Every key some keymap of the model binds.
AllKeys ==
    UNION {DOMAIN t[m] : <<t, m>> \in
             {<<t, m>> \in (KeyOverrides \cup {keymap_default}) \X Modes :
                m \in DOMAIN t}}

\* The override block a document holds for a language: the last of that name.
BlockOf(input, lang) ==
    IF ~WellFormed(input) THEN NONE
    ELSE LET ls == input.v.languages
             idx == {i \in 1..Len(ls) : ls[i].name = lang}
         IN  IF idx = {} THEN NONE
             ELSE Some(ls[CHOOSE i \in idx : \A j \in idx : j <= i])

\* HashMap::get
Get(map, key) == IF key \in DOMAIN map THEN Some(map[key]) ELSE NONE

\* C4: on every successful load the base keys are the default keymap with the
\* global keys layered on and then the local keys, an absent field or an
\* unavailable document layering nothing: there is an entry for every mode,
\* and a key is bound as local binds it, else as global does, else as the
\* default keymap does.
C4_KeysLayered ==
    (Loaded /\ result.ok) =>
      /\ result.v.keys =
            Layer(Layer(keymap_default, KeysOf(global)), KeysOf(local))
      /\ DOMAIN result.v.keys = DOMAIN keymap_default
      /\ \A mode \in Modes : \A key \in AllKeys :
            Binding(result.v.keys, mode, key) =
               or(OverrideBinding(KeysOf(local), mode, key),
                  or(OverrideBinding(KeysOf(global), mode, key),
                     Binding(keymap_default, mode, key)))

\* Both documents bind insert-mode y, to different commands, and load succeeded.
C4_Witness_BothBindY ==
    /\ Loaded
    /\ result.ok
    /\ WellFormed(global)
    /\ WellFormed(local)
    /\ OverrideBinding(global.v.keys, "insert", "y") # NONE
    /\ OverrideBinding(local.v.keys, "insert", "y") # NONE
    /\ OverrideBinding(global.v.keys, "insert", "y")
          # OverrideBinding(local.v.keys, "insert", "y")
    /\ result.v.keys # keymap_default

\* C5: with both documents well-formed the theme is local's if present, else
\* global's, else absent; and for a language both documents override,
\* theme_lang holds the local block's theme if present, else the global
\* block's, else no entry.
C5_ThemeLocalThenGlobal ==
    (Loaded /\ result.ok /\ WellFormed(global) /\ WellFormed(local)) =>
      /\ result.v.theme = or(local.v.theme, global.v.theme)
      /\ \A lang \in LangNames :
            (BlockOf(global, lang) # NONE /\ BlockOf(local, lang) # NONE) =>
               Get(result.v.theme_lang, lang) =
                  or(BlockOf(local, lang)[1].theme, BlockOf(global, lang)[1].theme)

\* Both documents give a language a theme, not the same one, and the global
\* document alone sets the top-level theme.
C5_Witness_BothThemes ==
    /\ Loaded
    /\ result.ok
    /\ WellFormed(global)
    /\ WellFormed(local)
    /\ global.v.theme # NONE
    /\ local.v.theme = NONE
    /\ result.v.theme = global.v.theme
    /\ \E lang \in LangNames :
          /\ BlockOf(global, lang) # NONE
          /\ BlockOf(local, lang) # NONE
          /\ BlockOf(global, lang)[1].theme # NONE
          /\ BlockOf(local, lang)[1].theme # NONE
          /\ BlockOf(global, lang)[1].theme # BlockOf(local, lang)[1].theme
          /\ Get(result.v.theme_lang, lang) = BlockOf(local, lang)[1].theme

\* Whether some block of a document for a language sets a field.
Supplies(input, lang, field) ==
    /\ WellFormed(input)
    /\ \E i \in 1..Len(input.v.languages) :
          /\ input.v.languages[i].name = lang
          /\ input.v.languages[i][field] # NONE

\* C6: on every successful load, theme_lang, keys_lang and editor_lang hold an
\* entry for a language only if a block of one of the two documents for that
\* language sets that same field.
C6_LanguageIsolation ==
    (Loaded /\ result.ok) =>
      \A lang \in LangNames :
        /\ lang \in DOMAIN result.v.theme_lang =>
              (Supplies(global, lang, "theme") \/ Supplies(local, lang, "theme"))
        /\ lang \in DOMAIN result.v.keys_lang =>
              (Supplies(global, lang, "keys") \/ Supplies(local, lang, "keys"))
        /\ lang \in DOMAIN result.v.editor_lang =>
              (Supplies(global, lang, "editor") \/ Supplies(local, lang, "editor"))

\* Both documents have a block for a language, keys are all the blocks set, and
\* the language has an entry in keys_lang alone.
C6_Witness_KeysOnly ==
    /\ Loaded
    /\ result.ok
    /\ \E lang \in LangNames :
          /\ BlockOf(global, lang) # NONE
          /\ BlockOf(local, lang) # NONE
          /\ lang \in DOMAIN result.v.keys_lang
          /\ lang \notin DOMAIN result.v.theme_lang
          /\ lang \notin DOMAIN result.v.editor_lang

\* The keys a document's block for a language sets, if any.
BlockKeys(input, lang) ==
    IF BlockOf(input, lang) = NONE THEN NONE ELSE BlockOf(input, lang)[1].keys

\* C7: an entry keys_lang[L] is the base keys of the same load with the global
\* block's keys layered on and then the local block's, an absent side layering
\* nothing: it has every mode, and a key is bound as the local block binds it,
\* else as the global block does, else as the base keys do.
C7_LanguageKeysOntoBase ==
    (Loaded /\ result.ok) =>
      \A lang \in DOMAIN result.v.keys_lang :
        /\ result.v.keys_lang[lang] =
              Layer(Layer(result.v.keys, BlockKeys(global, lang)),
                    BlockKeys(local, lang))
        /\ DOMAIN result.v.keys_lang[lang] = DOMAIN keymap_default
        /\ \A mode \in Modes : \A key \in AllKeys :
              Binding(result.v.keys_lang[lang], mode, key) =
                 or(OverrideBinding(BlockKeys(local, lang), mode, key),
                    or(OverrideBinding(BlockKeys(global, lang), mode, key),
                       Binding(result.v.keys, mode, key)))

\* A top-level override, and a language whose keys both documents set: its
\* keymap keeps a binding of the base that the default keymap does not have.
C7_Witness_BaseOverrideKept ==
    /\ Loaded
    /\ result.ok
    /\ result.v.keys # keymap_default
    /\ \E lang \in DOMAIN result.v.keys_lang :
          /\ BlockKeys(global, lang) # NONE
          /\ BlockKeys(local, lang) # NONE
          /\ result.v.keys_lang[lang] # result.v.keys
          /\ result.v.keys_lang[lang] #
                Layer(Layer(keymap_default, BlockKeys(global, lang)),
                      BlockKeys(local, lang))

\* A valid document that sets no field.
EmptyText ==
    [defect |-> NONE, theme |-> NONE, keys |-> NONE, editor |-> NONE,
     languages |-> <<>>]

\* Two outcomes of load agree on success, and then on the theme and the keys.
SameThemeAndKeys(r1, r2) ==
    /\ r1.ok = r2.ok
    /\ r1.ok => (r1.v.theme = r2.v.theme /\ r1.v.keys = r2.v.keys)

\* C8: a well-formed document beside an unavailable one resolves to the theme
\* and the keys it resolves to beside a valid document that sets nothing, be
\* the document the global or the local one.
C8_SingleDocumentEquivalence ==
    Loaded =>
      /\ (WellFormed(global) /\ Unavailable(local)) =>
            \A order \in Orders(LangNames) :
               SameThemeAndKeys(result, load(global, Ok(EmptyText), order))
      /\ (Unavailable(global) /\ WellFormed(local)) =>
            \A order \in Orders(LangNames) :
               SameThemeAndKeys(result, load(Ok(EmptyText), local, order))

\* A document that sets a theme and keys, loaded beside an unavailable one.
C8_Witness_DocumentAlone ==
    /\ Loaded
    /\ result.ok
    /\ WellFormed(global)
    /\ Unavailable(local)
    /\ global.v.theme # NONE
    /\ global.v.keys # NONE
    /\ result.v.theme = global.v.theme
    /\ result.v.keys # keymap_default

\* The editor value a document contributes, and the one of its block for a
\* language.
EditorOf(input) == IF WellFormed(input) THEN input.v.editor ELSE NONE

BlockEditor(input, lang) ==
    IF BlockOf(input, lang) = NONE THEN NONE ELSE BlockOf(input, lang)[1].editor

\* C9 (as claimed): when both documents override a language and one of the
\* blocks sets editor settings, editor_lang[L] is the conversion of the base
\* editor value with the global block's value merged onto it first and the
\* local block's value merged onto that.
C9_EditorGlobalThenLocal ==
    (Loaded /\ result.ok) =>
      \A lang \in LangNames :
        (/\ BlockOf(global, lang) # NONE
         /\ BlockOf(local, lang) # NONE
         /\ (BlockEditor(global, lang) # NONE \/ BlockEditor(local, lang) # NONE)) =>
           LET base == merge_editor_toml(EditorOf(global), EditorOf(local))
               claimed == map_editor_config(merge_editor_toml(
                              merge_editor_toml(base, BlockEditor(global, lang)),
                              BlockEditor(local, lang)))
           IN  /\ claimed.ok
               /\ Get(result.v.editor_lang, lang) = Some(claimed.v)

\* C10 (as claimed): the outcome of load is a function of its two inputs: a
\* second call on the same inputs returns what the first returned.
C10_SameOutcomeEveryCall ==
    pc = "reloaded" => result = prev

====
